---------------------------- MODULE Spec2Model ----------------------------
(***************************************************************************)
(* Model of the concurrency primitives of azka-zaydan/article-materials:   *)
(*   - the generic single-flight wrapper Singleflight[T] of                *)
(*     src/singleflight/main.go (ProccesWrapper, Forget) on top of the     *)
(*     golang.org/x/sync/singleflight Group it delegates to;               *)
(*   - the redsync-backed lock of AddToBankAccountWithMutex;               *)
(*   - getProductFromCache, the coalesced read of a product from redis.    *)
(*   - AddToBankAccount, the lock made of GET, SET and DEL on one key;     *)
(*   - UserServiceImpl of the unit-testing module over its repository;     *)
(*   - Subscriber.Listen and Publisher.Publish of src/redis-pubsub/main.go *)
(*     and the package configs (Init, Get) of the same file.               *)
(***************************************************************************)
EXTENDS Naturals, Integers, Sequences, FiniteSets, TLC

(***************************************************************************)
(* Bounds of the model.                                                    *)
(***************************************************************************)
\* number of ProccesWrapper invocations (goroutines) in one run
NCalls == 3
\* number of Forget invocations in one run that find their key registered
MaxForgets == 1
\* number of AddToBankAccountWithMutex invocations in one run
NLockers == 3
\* number of acquisition attempts one Lock call makes before it gives up
MaxTries == 2
\* lease duration of a lock, in clock ticks
Expiry == 2
\* last clock tick of a run
MaxTime == 3
\* number of AddToBankAccount invocations in one run
NBank == 3
\* lifetime of the key AddToBankAccount sets, in clock ticks
BankTTL == 2
\* last clock tick of a run of AddToBankAccount invocations
MaxBankTime == 2
\* number of UserService calls in one run
MaxUserOps == 2
\* number of Publish calls in one run
MaxMsgs == 3
\* number of configs.Init and configs.Get calls in one run
NConf == 3

(***************************************************************************)
(* Values.  A Go value of a concrete type is a record [raw |-> ...]; a     *)
(* value of interface type is a record holding its dynamic type and the    *)
(* raw value it wraps.                                                     *)
(***************************************************************************)
\* singleflight keys (Singleflight.Key)
Keys == {"k1", "k2"}

\* instantiations of the type parameter T: "P" a pointer type (*Product),
\* "I" an interface type (any), whose values may also wrap a string ("S")
Types == {"P", "I"}

\* the nil interface{} value
NilIface == [dyn |-> "nil", v |-> "nil"]

\* the implicit conversion T -> interface{} of `return fn()`
Box(T, v) == IF T = "I" THEN v ELSE [dyn |-> T, v |-> v.raw]

\* the value of the successful assertion res.(T)
Unbox(T, res) == IF T = "I" THEN res ELSE [raw |-> res.v]

\* *new(T): the zero value of T
Zero(T) == CASE T = "P" -> [raw |-> "nil"]
             [] T = "I" -> NilIface

\* errors.New("unexpected type assertion failure")
ErrTypeAssertion == "ETYPE"

\* the (value, error) pairs a work function of result type T may return
FnOutcomes(T) ==
  CASE T = "P" -> {<<[raw |-> "nil"], "nil">>, <<[raw |-> "nil"], "E1">>,
                   <<[raw |-> "p1"], "nil">>}
    [] T = "I" -> {<<NilIface, "nil">>, <<NilIface, "E1">>,
                   <<[dyn |-> "P", v |-> "p1"], "nil">>,
                   <<[dyn |-> "S", v |-> "s1"], "nil">>}

\* mutant of TypeAssertOk: the stored value is coerced without a check
TypeAssertAlways(T, res) == TRUE

\* the comma-ok of res.(T): a nil interface asserts to no type
TypeAssertOk(T, res) == res # NilIface /\ (T = "I" \/ res.dyn = T)

\* what ProccesWrapper returns for what Group.Do returned
WrapperResult(T, res, err) ==
  IF TypeAssertOk(T, res)
  THEN [val |-> Unbox(T, res), err |-> err]
  ELSE [val |-> Zero(T), err |-> ErrTypeAssertion]

(***************************************************************************)
(* State.                                                                  *)
(***************************************************************************)
VARIABLES
  m,        \* Group.m: the registry, a set of <<key, call>> entries
  calls,    \* the call objects ever created, in creation order
  pc,       \* position of each ProccesWrapper invocation
  key,      \* single.Key of the invocation
  typ,      \* the type parameter T of the invocation
  callOf,   \* the call the invocation created or joined (0: none yet)
  ret,      \* what the invocation returned
  entry,    \* what the invocation found when it took the Group's lock
  issued,   \* number of invocations that entered Group.Do
  forgets   \* number of Forget invocations that removed a registered call

sfVars == <<m, calls, pc, key, typ, callOf, ret, entry, issued, forgets>>

VARIABLES
  store,    \* the lease store: the unexpired records [name, value, exp]
  now,      \* the clock
  lpc,      \* position of each AddToBankAccountWithMutex invocation
  lname,    \* the mutex name, "add-account:{accountId}"
  tries,    \* acquisition attempts made by the invocation's Lock
  until,    \* Mutex.until: end of the lease the invocation acquired
  started,  \* number of invocations that created their mutex
  lres      \* what the invocation observed: Lock's error, whether it ran
            \* the critical section, its Unlock calls and their results,
            \* and the error the function returned

lockVars == <<store, now, lpc, lname, tries, until, started, lres>>

VARIABLES
  cache,    \* redis: what is stored under "product:<id>"
  pending,  \* per product, the getProductFromCache invocations with currIdx
            \* 2 that have called Forget and not yet ProccesWrapper
  twos,     \* number of invocations with currIdx 2 so far
  gidx,     \* currIdx of the invocation
  gret,     \* what getProductFromCache returned
  fetched,  \* per call, what rdb.Get returned to its work function
  reads     \* number of rdb.Get calls so far

cacheVars == <<cache, pending, twos, gidx, gret, fetched, reads>>

VARIABLES
  bstore,   \* redis: the unexpired keys "add-account:{accountId}", as
            \* records [name, value, exp, by]; by is the invocation whose
            \* SET wrote the key (not stored by the program)
  bnow,     \* the clock of that store
  bpc,      \* position of each AddToBankAccount invocation
  bacct,    \* the accountId argument of the invocation
  bstarted, \* number of invocations that made their GET
  bres      \* what the invocation observed: the errors of its GET and SET,
            \* whether it ran the critical section, and the error returned

bankVars == <<bstore, bnow, bpc, bacct, bstarted, bres>>

VARIABLES
  ulog      \* the UserService calls made so far: for each, its arguments,
            \* what the repository was set to return, the repository calls
            \* the service made, and what the service returned

userVars == <<ulog>>

VARIABLES
  spc,       \* position of Subscriber.Listen
  chan,      \* ch: the messages delivered and not yet received
  chClosed,  \* whether ch has been closed
  ctxDone,   \* whether the context of Listen and Publish is cancelled
  subClosed, \* whether pubSub.Close() has run
  delivered, \* the payloads delivered on ch so far, in order
  taken,     \* number of messages Listen has received from ch
  processed, \* what Listen printed for the messages it processed
  published, \* number of Publish calls so far
  pubErr     \* the result of the last Publish call

pubVars == <<spc, chan, chClosed, ctxDone, subClosed, delivered, taken,
             processed, published, pubErr>>

VARIABLES
  once,        \* sync.Once: "new", "running" (its function is running) or
               \* "done"
  initialized, \* the package variable initialized
  bodyRuns,    \* number of times the function passed to once.Do started
  envres,      \* what godotenv.Load and envconfig.Process returned
  exited,      \* whether log.Fatal has ended the process
  cstarted,    \* number of configs.Init and configs.Get calls made
  cpc,         \* position of each call
  cop,         \* the function called: "Init" or "Get"
  cret         \* what the call read of initialized and what it returned

confVars == <<once, initialized, bodyRuns, envres, exited, cstarted, cpc, cop,
              cret>>

vars == <<sfVars, lockVars, cacheVars, bankVars, userVars, pubVars, confVars>>

Procs == 1..NCalls

LProcs == 1..NLockers

\* product ids: the productID argument
PIDs == {1, 2}

\* fmt.Sprintf("singleflight:product:%v", productID)
KeyOf(pid) == IF pid = 1 THEN "k1" ELSE "k2"

\* the product whose singleflight key is k
PidOf(k) == CHOOSE pid \in PIDs : KeyOf(pid) = k

\* currIdx: 2, or 0 for any other value
CurrIdxs == {0, 2}

NoGetRet == [val |-> [raw |-> "none"], err |-> <<"none">>]

\* lock names: the accountId argument
LNames == {"a1", "a2"}

BProcs == 1..NBank

CProcs == 1..NConf

NoConfRet == [seen |-> "none", err |-> "none", ptr |-> "none"]

\* the accountId arguments
Accounts == {"a1", "a2"}

NoBankRes == [getErr |-> "none", setErr |-> "none", entered |-> FALSE,
              dels |-> 0, err |-> "none"]

NoLockRes == [lockErr |-> "none", entered |-> FALSE, unlocks |-> 0,
              released |-> FALSE, unlockErr |-> "none", err |-> "none"]

NoRet == [val |-> [raw |-> "none"], err |-> "none"]

NoEntry == [absent |-> FALSE, afterDone |-> FALSE, allDone |-> FALSE,
            callDone |-> FALSE, callForgotten |-> FALSE]

\* mutant of Lookup: the lookup misses the registered call
LookupMiss(reg, k) == {}

\* mutant of Lookup: the lookup ignores the key
LookupAnyKey(reg, k) == {e[2] : e \in reg}

\* the calls registered for key k
Lookup(reg, k) == {e[2] : e \in {x \in reg : x[1] = k}}

\* mutant of Register: the new call is not put into the registry
RegisterNone(reg, k, c) == reg

\* g.m[key] = c
Register(reg, k, c) == reg \cup {<<k, c>>}

\* mutant of Deregister: the completed call stays in the registry
DeregisterNone(reg, k, c) == reg

\* mutant of Deregister: the key is deleted whichever call it maps to
DeregisterKey(reg, k, c) == {e \in reg : e[1] # k}

\* doCall's deferred `if g.m[key] == c { delete(g.m, key) }`
Deregister(reg, k, c) == reg \ {<<k, c>>}

\* mutant of ForgetKey: the whole registry is cleared
ForgetAll(reg, k) == {}

\* mutant of ForgetKey: the key stays registered
ForgetNothing(reg, k) == reg

\* Group.Forget: delete(g.m, key)
ForgetKey(reg, k) == {e \in reg : e[1] # k}

CallsOf(k) == {c \in 1..Len(calls) : calls[c].key = k}

\* mutant of DoRole: the caller runs its work function whatever it found
DoRoleAlwaysRuns(found) == "running"

\* Group.Do after the lookup: a caller that found a call waits for it, one
\* that found none runs its work function
DoRole(found) == IF found # {} THEN "waiting" ELSE "running"

\* mutant of WaitDone: the completion of a forgotten call wakes nobody
WaitDoneUnlessForgotten(cs, c) == cs[c].done /\ ~cs[c].forgotten

\* c.wg.Wait() returns: the call's completion has been signalled
WaitDone(cs, c) == cs[c].done

Init ==
  /\ m = {}
  /\ calls = <<>>
  /\ pc = [p \in Procs |-> "idle"]
  /\ key = [p \in Procs |-> "k1"]
  /\ typ = [p \in Procs |-> "P"]
  /\ callOf = [p \in Procs |-> 0]
  /\ ret = [p \in Procs |-> NoRet]
  /\ entry = [p \in Procs |-> NoEntry]
  /\ issued = 0
  /\ forgets = 0
  /\ store = {}
  /\ now = 0
  /\ lpc = [p \in LProcs |-> "idle"]
  /\ lname = [p \in LProcs |-> "a1"]
  /\ tries = [p \in LProcs |-> 0]
  /\ until = [p \in LProcs |-> 0]
  /\ started = 0
  /\ lres = [p \in LProcs |-> NoLockRes]
  /\ cache = [pid \in PIDs |-> "none"]
  /\ pending = [pid \in PIDs |-> 0]
  /\ twos = 0
  /\ gidx = [p \in Procs |-> 0]
  /\ gret = [p \in Procs |-> NoGetRet]
  /\ fetched = [c \in Procs |-> "none"]
  /\ reads = 0
  /\ bstore = {}
  /\ bnow = 0
  /\ bpc = [p \in BProcs |-> "idle"]
  /\ bacct = [p \in BProcs |-> "a1"]
  /\ bstarted = 0
  /\ bres = [p \in BProcs |-> NoBankRes]
  /\ ulog = <<>>
  /\ spc = "idle"
  /\ chan = <<>>
  /\ chClosed = FALSE
  /\ ctxDone = FALSE
  /\ subClosed = FALSE
  /\ delivered = <<>>
  /\ taken = 0
  /\ processed = <<>>
  /\ published = 0
  /\ pubErr = "none"
  /\ once = "new"
  /\ initialized = FALSE
  /\ bodyRuns = 0
  /\ envres = [loadErr |-> "none", procErr |-> "none"]
  /\ exited = FALSE
  /\ cstarted = 0
  /\ cpc = [p \in CProcs |-> "idle"]
  /\ cop = [p \in CProcs |-> "Init"]
  /\ cret = [p \in CProcs |-> NoConfRet]

(***************************************************************************)
(* Group.Do up to the release of the Group's lock: join the call           *)
(* registered for the key, or register a new one and run fn.  Invocations  *)
(* are numbered in the order in which they take the lock.                  *)
(***************************************************************************)
DoEnterCore(p, k, t) ==
  /\ pc[p] = "idle"
  /\ p = issued + 1
  /\ issued' = issued + 1
  /\ key' = [key EXCEPT ![p] = k]
  /\ typ' = [typ EXCEPT ![p] = t]
  /\ LET found == Lookup(m, k)
         seen  == [absent |-> found = {},
                   afterDone |-> \E c \in CallsOf(k) : calls[c].done,
                   allDone |-> \A c \in CallsOf(k) : calls[c].done,
                   callDone |-> \E c \in found : calls[c].done,
                   callForgotten |-> \E c \in found : calls[c].forgotten]
     IN /\ entry' = [entry EXCEPT ![p] = seen]
        /\ IF found # {}
           THEN LET c == CHOOSE x \in found : TRUE
                IN /\ calls' = [calls EXCEPT ![c].dups = @ + 1]
                   /\ callOf' = [callOf EXCEPT ![p] = c]
                   /\ pc' = [pc EXCEPT ![p] = DoRole(found)]
                   /\ m' = m
           ELSE LET c == Len(calls) + 1
                IN /\ calls' = Append(calls,
                                 [key |-> k, owner |-> p, val |-> NilIface,
                                  err |-> "nil", done |-> FALSE, dups |-> 0,
                                  forgotten |-> FALSE, execs |-> 0])
                   /\ callOf' = [callOf EXCEPT ![p] = c]
                   /\ pc' = [pc EXCEPT ![p] = DoRole(found)]
                   /\ m' = Register(m, k, c)
  /\ UNCHANGED <<ret, forgets>>
  /\ UNCHANGED <<lockVars, bankVars, userVars, pubVars, confVars>>

DoEnter(p, k, t) == DoEnterCore(p, k, t) /\ UNCHANGED cacheVars

(***************************************************************************)
(* The work function of the invocation that registered the call returns    *)
(* (v, e): doCall stores the result, signals the wait group and            *)
(* deregisters the call under the lock; Do returns and ProccesWrapper      *)
(* asserts the type.                                                       *)
(***************************************************************************)
FnReturnCore(p, v, e) ==
  /\ pc[p] = "running"
  /\ LET c   == callOf[p]
         res == Box(typ[p], v)
     IN /\ calls' = [calls EXCEPT ![c].val = res, ![c].err = e,
                                  ![c].done = TRUE, ![c].execs = @ + 1]
        /\ m' = Deregister(m, key[p], c)
        /\ ret' = [ret EXCEPT ![p] = WrapperResult(typ[p], res, e)]
  /\ pc' = [pc EXCEPT ![p] = "done"]
  /\ UNCHANGED <<key, typ, callOf, entry, issued, forgets>>
  /\ UNCHANGED <<lockVars, bankVars, userVars, pubVars, confVars>>

FnReturn(p, v, e) ==
  /\ <<v, e>> \in FnOutcomes(typ[p])
  /\ FnReturnCore(p, v, e)
  /\ UNCHANGED cacheVars

(***************************************************************************)
(* A joined invocation wakes from c.wg.Wait(), Do returns c.val, c.err and *)
(* ProccesWrapper asserts the type.                                        *)
(***************************************************************************)
WaiterReturnCore(p) ==
  /\ pc[p] = "waiting"
  /\ WaitDone(calls, callOf[p])
  /\ ret' = [ret EXCEPT ![p] =
               WrapperResult(typ[p], calls[callOf[p]].val, calls[callOf[p]].err)]
  /\ pc' = [pc EXCEPT ![p] = "done"]
  /\ UNCHANGED <<m, calls, key, typ, callOf, entry, issued, forgets>>
  /\ UNCHANGED <<lockVars, bankVars, userVars, pubVars, confVars>>

WaiterReturn(p) == WaiterReturnCore(p) /\ UNCHANGED cacheVars

(***************************************************************************)
(* Singleflight.Forget(k): Group.Forget deletes the key from the registry. *)
(***************************************************************************)
ForgetCore(k) ==
  /\ forgets < MaxForgets
  /\ forgets' = IF Lookup(m, k) = {} THEN forgets ELSE forgets + 1
  /\ m' = ForgetKey(m, k)
  /\ calls' = [c \in 1..Len(calls) |->
                 IF c \in Lookup(m, k)
                 THEN [calls[c] EXCEPT !.forgotten = TRUE]
                 ELSE calls[c]]
  /\ UNCHANGED <<pc, key, typ, callOf, ret, entry, issued>>
  /\ UNCHANGED <<lockVars, bankVars, userVars, pubVars, confVars>>

Forget(k) == ForgetCore(k) /\ UNCHANGED cacheVars

(***************************************************************************)
(* The lock of AddToBankAccountWithMutex: a redsync mutex on one store.    *)
(***************************************************************************)
\* the unexpired records of name n
Leases(st, n) == {r \in st : r.name = n}

\* mutant of SetNXAcquired: a plain SET, which succeeds on a held name
SetAlways(st, n) == TRUE

\* SET name value NX PX expiry: whether the record was created
SetNXAcquired(st, n) == Leases(st, n) = {}

\* the store after SET name value NX PX expiry at time t
SetNX(st, n, v, t) ==
  IF SetNXAcquired(st, n)
  THEN st \cup {[name |-> n, value |-> v, exp |-> t + Expiry]}
  ELSE st

\* the release script: whether the record of n holds value v
IsOwner(st, n, v) == \E r \in Leases(st, n) : r.value = v

\* mutant of DeleteIfOwner: the name is deleted whoever holds it
DeleteByName(st, n, v) == {r \in st : r.name # n}

\* mutant of DeleteIfOwner: nothing is deleted
DeleteNever(st, n, v) == st

\* the store after the release script: delete n if it holds value v
DeleteIfOwner(st, n, v) == {r \in st : ~(r.name = n /\ r.value = v)}

\* the error of mutex.Unlock() for the store it ran against: the release
\* script reports a name that no longer exists
UnlockErr(st, n, v) ==
  IF Leases(st, n) = {} THEN "ErrLockAlreadyExpired" ELSE "nil"

\* mutant of Unexpired: records never expire
UnexpiredKeepsAll(st, t) == st

\* the records that are unexpired at time t
Unexpired(st, t) == {r \in st : r.exp > t}

\* mutant of AfterLock: the early return on a failed Lock is missing
AfterLockNoCheck(err) == "cs"

\* `if err = mutex.Lock(); err != nil { return }`: where the function goes
AfterLock(err) == IF err # "nil" THEN "ret" ELSE "cs"

\* the named result err when the function returns through the deferred
\* function: `ok, err := mutex.Unlock()` declares its own err, so the result
\* keeps the value the body left in it
DeferredReturn(err, ok, unlockErr) == err

\* redSync.NewMutex(fmt.Sprintf("add-account:{%s}", accountId)); invocations
\* are numbered in the order in which they create their mutex
NewMutex(p, n) ==
  /\ lpc[p] = "idle"
  /\ p = started + 1
  /\ started' = started + 1
  /\ lname' = [lname EXCEPT ![p] = n]
  /\ lpc' = [lpc EXCEPT ![p] = "lock"]
  /\ UNCHANGED <<store, now, tries, until, lres>>
  /\ UNCHANGED <<sfVars, cacheVars, bankVars, userVars, pubVars, confVars>>

\* one acquisition attempt of mutex.Lock(): the value of the invocation is
\* its own number (a fresh random value per Lock call).  An attempt takes no
\* clock time, so the lease it creates is valid; a failed attempt releases
\* whatever it may have set; a Lock call that used up its attempts returns
\* an error.
LockAttempt(p) ==
  /\ lpc[p] = "lock"
  /\ tries' = [tries EXCEPT ![p] = @ + 1]
  /\ LET acquired == SetNXAcquired(store, lname[p])
         lockErr  == IF acquired THEN "nil"
                     ELSE IF tries[p] + 1 >= MaxTries THEN "ErrFailed"
                     ELSE "retry"
     IN /\ store' = IF acquired
                    THEN SetNX(store, lname[p], p, now)
                    ELSE DeleteIfOwner(store, lname[p], p)
        /\ until' = IF acquired
                    THEN [until EXCEPT ![p] = now + Expiry]
                    ELSE until
        /\ IF lockErr = "retry"
           THEN /\ lres' = lres
                /\ lpc' = lpc
           ELSE /\ lpc' = [lpc EXCEPT ![p] = AfterLock(lockErr)]
                /\ lres' = [lres EXCEPT
                     ![p].lockErr = lockErr,
                     ![p].entered = (AfterLock(lockErr) = "cs"),
                     ![p].err = IF AfterLock(lockErr) = "ret"
                                THEN lockErr ELSE @]
  /\ UNCHANGED <<now, lname, started>>
  /\ UNCHANGED <<sfVars, cacheVars, bankVars, userVars, pubVars, confVars>>

\* the end of the critical section: the deferred mutex.Unlock(), whose
\* results the deferred function drops, and the return of the function
Unlock(p) ==
  /\ lpc[p] = "cs"
  /\ store' = DeleteIfOwner(store, lname[p], p)
  /\ LET ok   == IsOwner(store, lname[p], p)
         uerr == IF ok THEN "nil" ELSE UnlockErr(store, lname[p], p)
     IN lres' = [lres EXCEPT
                   ![p].released = ok,
                   ![p].unlockErr = uerr,
                   ![p].unlocks = @ + 1,
                   ![p].err = DeferredReturn(lres[p].lockErr, ok, uerr)]
  /\ lpc' = [lpc EXCEPT ![p] = "ret"]
  /\ UNCHANGED <<now, lname, tries, until, started>>
  /\ UNCHANGED <<sfVars, cacheVars, bankVars, userVars, pubVars, confVars>>

\* time passes: the store drops the records whose lease ran out
Tick ==
  /\ now < MaxTime
  /\ now' = now + 1
  /\ store' = Unexpired(store, now + 1)
  /\ UNCHANGED <<lpc, lname, tries, until, started, lres>>
  /\ UNCHANGED <<sfVars, cacheVars, bankVars, userVars, pubVars, confVars>>

NextLock ==
  \/ \E p \in LProcs, n \in LNames : NewMutex(p, n)
  \/ \E p \in LProcs : LockAttempt(p)
  \/ \E p \in LProcs : Unlock(p)
  \/ Tick

SpecLock == Init /\ [][NextLock]_vars

(***************************************************************************)
(* getProductFromCache: the read of "product:<id>" from redis, coalesced   *)
(* on the key "singleflight:product:<id>" with result type *Product.       *)
(***************************************************************************)
\* errors.Wrap(err, "Failed to unmarshal product")
ErrUnmarshal == "Failed to unmarshal product"

\* the results rdb.Get(...).Result() may give for the stored content: the
\* stored value, redis.Nil when nothing is stored, or a transport error
RdbGet(content) ==
  IF content = "none" THEN {"redis.Nil", "EIO"} ELSE {content, "EIO"}

\* mutant of FetchOutcome: redis.Nil is returned like any other error
FetchOutcomeNilIsError(g) ==
  CASE g = "redis.Nil" -> <<[raw |-> "nil"], "redis.Nil">>
    [] g = "EIO"       -> <<[raw |-> "nil"], "EIO">>
    [] g = "bad"       -> <<[raw |-> "nil"], ErrUnmarshal>>
    [] g = "good"      -> <<[raw |-> "p1"], "nil">>

\* mutant of FetchOutcome: a value that does not unmarshal is read as a miss
FetchOutcomeMasksUnmarshal(g) ==
  CASE g = "redis.Nil" -> <<[raw |-> "nil"], "nil">>
    [] g = "EIO"       -> <<[raw |-> "nil"], "EIO">>
    [] g = "bad"       -> <<[raw |-> "nil"], "nil">>
    [] g = "good"      -> <<[raw |-> "p1"], "nil">>

\* the work function passed to ProccesWrapper, for the result g of rdb.Get
FetchOutcome(g) ==
  CASE g = "redis.Nil" -> <<[raw |-> "nil"], "nil">>
    [] g = "EIO"       -> <<[raw |-> "nil"], "EIO">>
    [] g = "bad"       -> <<[raw |-> "nil"], ErrUnmarshal>>
    [] g = "good"      -> <<[raw |-> "p1"], "nil">>

\* the end of getProductFromCache, for the result r of ProccesWrapper
GetProductResult(r) ==
  IF r.err # "nil"
  THEN [val |-> [raw |-> "nil"],
        err |-> <<"Failed to get product from cache", r.err>>]
  ELSE [val |-> r.val, err |-> <<>>]

\* rdb.Set of main, before the goroutines start: a product that unmarshals
\* ("good") or a value that does not ("bad")
RdbSet(pid, v) ==
  /\ issued = 0
  /\ twos = 0
  /\ cache' = [cache EXCEPT ![pid] = v]
  /\ UNCHANGED <<pending, twos, gidx, gret, fetched, reads>>
  /\ UNCHANGED <<sfVars, lockVars, bankVars, userVars, pubVars, confVars>>

\* an invocation with currIdx = 2 calls Forget before ProccesWrapper
GetForget(pid) ==
  /\ twos < MaxForgets
  /\ twos' = twos + 1
  /\ pending' = [pending EXCEPT ![pid] = @ + 1]
  /\ ForgetCore(KeyOf(pid))
  /\ UNCHANGED <<cache, gidx, gret, fetched, reads>>

\* the invocation enters ProccesWrapper; one with currIdx = 2 has called
\* Forget before
GetDo(p, pid, idx) ==
  /\ idx = 2 => pending[pid] > 0
  /\ pending' = IF idx = 2 THEN [pending EXCEPT ![pid] = @ - 1] ELSE pending
  /\ gidx' = [gidx EXCEPT ![p] = idx]
  /\ DoEnterCore(p, KeyOf(pid), "P")
  /\ UNCHANGED <<cache, twos, gret, fetched, reads>>

\* the work function of the invocation that registered the call reads
\* redis: rdb.Get returns g.  The call stays registered and in flight, and
\* other invocations may join it before the work function returns
GetRead(p, g) ==
  /\ pc[p] = "running"
  /\ fetched[callOf[p]] = "none"
  /\ g \in RdbGet(cache[PidOf(key[p])])
  /\ fetched' = [fetched EXCEPT ![callOf[p]] = g]
  /\ reads' = reads + 1
  /\ UNCHANGED <<cache, pending, twos, gidx, gret>>
  /\ UNCHANGED <<sfVars, lockVars, bankVars, userVars, pubVars, confVars>>

\* the work function returns what it made of the value it read;
\* ProccesWrapper and getProductFromCache return to the invocation that ran
\* it
GetFetch(p) ==
  /\ pc[p] = "running"
  /\ fetched[callOf[p]] # "none"
  /\ LET out == FetchOutcome(fetched[callOf[p]])
     IN FnReturnCore(p, out[1], out[2])
  /\ gret' = [gret EXCEPT ![p] = GetProductResult(ret'[p])]
  /\ UNCHANGED <<cache, pending, twos, gidx, fetched, reads>>

\* a joined invocation wakes; ProccesWrapper and getProductFromCache return
GetWake(p) ==
  /\ WaiterReturnCore(p)
  /\ gret' = [gret EXCEPT ![p] = GetProductResult(ret'[p])]
  /\ UNCHANGED <<cache, pending, twos, gidx, fetched, reads>>

NextCache ==
  \/ \E pid \in PIDs, v \in {"good", "bad"} : RdbSet(pid, v)
  \/ \E pid \in PIDs : GetForget(pid)
  \/ \E p \in Procs, pid \in PIDs, idx \in CurrIdxs : GetDo(p, pid, idx)
  \/ \E p \in Procs : \E g \in {"redis.Nil", "EIO", "good", "bad"} : GetRead(p, g)
  \/ \E p \in Procs : GetFetch(p)
  \/ \E p \in Procs : GetWake(p)

SpecCache == Init /\ [][NextCache]_vars

\* main: every goroutine reads product 1, which main has stored before
MainProduct == 1

NextMain ==
  \/ \E v \in {"good", "bad"} : RdbSet(MainProduct, v)
  \/ GetForget(MainProduct)
  \/ \E p \in Procs, idx \in CurrIdxs : GetDo(p, MainProduct, idx)
  \/ \E p \in Procs : \E g \in {"redis.Nil", "EIO", "good", "bad"} : GetRead(p, g)
  \/ \E p \in Procs : GetFetch(p)
  \/ \E p \in Procs : GetWake(p)

SpecMain == Init /\ [][NextMain]_vars

\* scheduling of main's goroutines: every goroutine that main started gets
\* to call ProccesWrapper, every rdb.Get is answered, every started work
\* function returns, and every
\* goroutine whose wait has been signalled runs again
FairMain ==
  /\ \A p \in Procs : WF_vars(\E idx \in CurrIdxs : GetDo(p, MainProduct, idx))
  /\ \A p \in Procs :
       WF_vars(\E g \in {"redis.Nil", "EIO", "good", "bad"} : GetRead(p, g))
  /\ \A p \in Procs : WF_vars(GetFetch(p))
  /\ \A p \in Procs : WF_vars(GetWake(p))

SpecMainLive == Init /\ [][NextMain]_vars /\ FairMain

Next ==
  \/ \E p \in Procs, k \in Keys, t \in Types : DoEnter(p, k, t)
  \/ \E p \in Procs : \E o \in FnOutcomes(typ[p]) : FnReturn(p, o[1], o[2])
  \/ \E p \in Procs : WaiterReturn(p)
  \/ \E k \in Keys : Forget(k)

Spec == Init /\ [][Next]_vars

(***************************************************************************)
(* AddToBankAccount: the lock made of GET, SET and a deferred DEL on the   *)
(* key "add-account:{accountId}".  Each redis command is one step.         *)
(***************************************************************************)
\* fmt.Sprintf("add-account:{%s}", accountId)
BankKeyOf(a) == <<"add-account", a>>

\* the unexpired keys of name n
BankKeys(st, n) == {r \in st : r.name = n}

\* rdb.Get(ctx, key).Err(): redis.Nil for a missing key, nil for a key that
\* exists, another error when the store fails
BankGetErr(st, n, fault) ==
  IF fault THEN "EIO"
  ELSE IF BankKeys(st, n) = {} THEN "redis.Nil" ELSE "nil"

\* mutant of BankAfterGet: the existence of the key is not looked at
BankAfterGetIgnoresExist(err) ==
  IF err = "redis.Nil" \/ err = "nil" THEN "set" ELSE "ret"

\* where the function goes after the GET: it returns on an error other than
\* redis.Nil and on an existing key, and goes on to the SET otherwise
BankAfterGet(err) ==
  IF err # "nil"
  THEN IF err # "redis.Nil" THEN "ret" ELSE "set"
  ELSE "ret"

\* rdb.Set(ctx, key, accountId, 10 minutes): a plain SET, which replaces
\* whatever is stored under the key
BankSetStore(st, n, v, t, p) ==
  (st \ BankKeys(st, n)) \cup {[name |-> n, value |-> v, exp |-> t + BankTTL,
                               by |-> p]}

\* rdb.Del(ctx, key)
BankDelStore(st, n) == st \ BankKeys(st, n)

\* the existence check; invocations are numbered in the order of their GET
BankGet(p, a, fault) ==
  /\ bpc[p] = "idle"
  /\ p = bstarted + 1
  /\ bstarted' = bstarted + 1
  /\ bacct' = [bacct EXCEPT ![p] = a]
  /\ LET e == BankGetErr(bstore, BankKeyOf(a), fault)
     IN /\ bpc' = [bpc EXCEPT ![p] = BankAfterGet(e)]
        /\ bres' = [bres EXCEPT ![p].getErr = e,
                                ![p].err = IF BankAfterGet(e) = "ret"
                                           THEN e ELSE @]
  /\ UNCHANGED <<bstore, bnow>>
  /\ UNCHANGED <<sfVars, lockVars, cacheVars, userVars, pubVars, confVars>>

\* the SET of the key: on an error the function returns it, otherwise the
\* deferred DEL is registered and the critical section begins
BankSet(p, fault) ==
  /\ bpc[p] = "set"
  /\ IF fault
     THEN /\ bstore' = bstore
          /\ bres' = [bres EXCEPT ![p].setErr = "EIO", ![p].err = "EIO"]
          /\ bpc' = [bpc EXCEPT ![p] = "ret"]
     ELSE /\ bstore' = BankSetStore(bstore, BankKeyOf(bacct[p]), bacct[p],
                                    bnow, p)
          /\ bres' = [bres EXCEPT ![p].setErr = "nil", ![p].entered = TRUE]
          /\ bpc' = [bpc EXCEPT ![p] = "cs"]
  /\ UNCHANGED <<bnow, bacct, bstarted>>
  /\ UNCHANGED <<sfVars, lockVars, cacheVars, userVars, pubVars, confVars>>

\* the end of the critical section: the deferred DEL, whose result is
\* dropped, and the return of the function with the nil error of the SET
BankDel(p) ==
  /\ bpc[p] = "cs"
  /\ bstore' = BankDelStore(bstore, BankKeyOf(bacct[p]))
  /\ bres' = [bres EXCEPT ![p].dels = @ + 1, ![p].err = bres[p].setErr]
  /\ bpc' = [bpc EXCEPT ![p] = "ret"]
  /\ UNCHANGED <<bnow, bacct, bstarted>>
  /\ UNCHANGED <<sfVars, lockVars, cacheVars, userVars, pubVars, confVars>>

\* time passes: the store drops the keys whose lifetime has run out
BankTick ==
  /\ bnow < MaxBankTime
  /\ bnow' = bnow + 1
  /\ bstore' = {r \in bstore : r.exp > bnow + 1}
  /\ UNCHANGED <<bpc, bacct, bstarted, bres>>
  /\ UNCHANGED <<sfVars, lockVars, cacheVars, userVars, pubVars, confVars>>

NextBank ==
  \/ \E p \in BProcs, a \in Accounts, fault \in BOOLEAN : BankGet(p, a, fault)
  \/ \E p \in BProcs, fault \in BOOLEAN : BankSet(p, fault)
  \/ \E p \in BProcs : BankDel(p)
  \/ BankTick

SpecBank == Init /\ [][NextBank]_vars

(***************************************************************************)
(* UserServiceImpl over a UserRepository whose results are the inputs.     *)
(* An error is the chain of the errors it wraps, outermost first; nil is   *)
(* the empty chain.                                                        *)
(***************************************************************************)
NilErr == <<>>

\* model.User{}
ZeroUser == [id |-> 0, name |-> "", email |-> ""]

\* the users a repository may hand back
Users == {ZeroUser, [id |-> 1, name |-> "John", email |-> "john@example.com"]}

\* dto.CreateUserReq values
Reqs == {[name |-> "John", email |-> "john@example.com"],
         [name |-> "Jane", email |-> "jane@example.com"]}

\* the errors a repository lookup may return
FindErrs == {NilErr, <<"sql.ErrNoRows">>, <<"wrapped", "sql.ErrNoRows">>,
             <<"AnError">>}

\* the errors DoesUserExist and the repository's CreateUser may return
RepoErrs == {NilErr, <<"AnError">>}

\* errors.Is(err, target)
ErrorsIs(err, target) == \E i \in 1..Len(err) : err[i] = target

\* mutant of GetUserByIDResult: a missing row is not an error
GetUserByIDNotFoundIsNil(id, u, e) ==
  [repo |-> <<[method |-> "FindUserByID", arg |-> id]>>,
   res |-> u,
   err |-> IF e # NilErr /\ ~ErrorsIs(e, "sql.ErrNoRows")
           THEN <<"internal server error">> ELSE NilErr]

\* GetUserByID(id) when the repository's FindUserByID returns (u, e)
GetUserByIDResult(id, u, e) ==
  [repo |-> <<[method |-> "FindUserByID", arg |-> id]>>,
   res |-> u,
   err |-> IF e # NilErr
           THEN IF ErrorsIs(e, "sql.ErrNoRows")
                THEN <<"user not found">>
                ELSE <<"internal server error">>
           ELSE e]

\* GetUserByEmail(email) when the repository's FindUserByEmail returns (u, e)
GetUserByEmailResult(email, u, e) ==
  [repo |-> <<[method |-> "FindUserByEmail", arg |-> email]>>,
   res |-> u,
   err |-> IF e # NilErr
           THEN IF ErrorsIs(e, "sql.ErrNoRows")
                THEN <<"user not found">>
                ELSE <<"internal server error">>
           ELSE e]

\* mutant of CreateUserResult: the result of DoesUserExist is not looked at
CreateUserNoExistCheck(req, exist, eerr, cerr) ==
  [repo |-> <<[method |-> "DoesUserExist", arg |-> req.email],
              [method |-> "CreateUser",
               arg |-> [id |-> 0, name |-> req.name, email |-> req.email]]>>,
   res |-> ZeroUser,
   err |-> cerr]

\* CreateUser(req) when DoesUserExist returns (exist, eerr) and the
\* repository's CreateUser, if called, returns cerr
CreateUserResult(req, exist, eerr, cerr) ==
  LET user  == [id |-> 0, name |-> req.name, email |-> req.email]
      check == [method |-> "DoesUserExist", arg |-> user.email]
  IN IF eerr # NilErr
     THEN [repo |-> <<check>>, res |-> ZeroUser, err |-> eerr]
     ELSE IF exist
     THEN [repo |-> <<check>>, res |-> ZeroUser,
           err |-> <<"user already exist">>]
     ELSE [repo |-> <<check, [method |-> "CreateUser", arg |-> user]>>,
           res |-> ZeroUser, err |-> cerr]

GetUserByID(id, u, e) ==
  /\ Len(ulog) < MaxUserOps
  /\ ulog' = Append(ulog, [op |-> "GetUserByID",
                           in |-> [arg |-> id, user |-> u, err |-> e],
                           out |-> GetUserByIDResult(id, u, e)])
  /\ UNCHANGED <<sfVars, lockVars, cacheVars, bankVars, pubVars, confVars>>

GetUserByEmail(email, u, e) ==
  /\ Len(ulog) < MaxUserOps
  /\ ulog' = Append(ulog, [op |-> "GetUserByEmail",
                           in |-> [arg |-> email, user |-> u, err |-> e],
                           out |-> GetUserByEmailResult(email, u, e)])
  /\ UNCHANGED <<sfVars, lockVars, cacheVars, bankVars, pubVars, confVars>>

CreateUser(req, exist, eerr, cerr) ==
  /\ Len(ulog) < MaxUserOps
  /\ ulog' = Append(ulog, [op |-> "CreateUser",
                           in |-> [arg |-> req, exist |-> exist,
                                   existErr |-> eerr, createErr |-> cerr],
                           out |-> CreateUserResult(req, exist, eerr, cerr)])
  /\ UNCHANGED <<sfVars, lockVars, cacheVars, bankVars, pubVars, confVars>>

NextUser ==
  \/ \E id \in {1, 2}, u \in Users, e \in FindErrs : GetUserByID(id, u, e)
  \/ \E r \in Reqs, u \in Users, e \in FindErrs : GetUserByEmail(r.email, u, e)
  \/ \E r \in Reqs, exist \in BOOLEAN, eerr \in RepoErrs, cerr \in RepoErrs :
       CreateUser(r, exist, eerr, cerr)

SpecUser == Init /\ [][NextUser]_vars

(***************************************************************************)
(* The redis pub/sub example: Subscriber.Listen and Publisher.Publish on   *)
(* the topic "product".  A payload is the text of the message.             *)
(***************************************************************************)
\* the ProductMessage values main publishes; a pointer is a sequence with
\* the value it points to, nil the empty sequence
Messages ==
  {[product |-> <<[id |-> 1, name |-> "Laptop"]>>, action |-> "create"],
   [product |-> <<[id |-> 2, name |-> "Laptop A"]>>, action |-> "update"]}

\* ProductMessage.ToBytes: json.Marshal of the message
ToBytes(msg) ==
  IF msg.product[1].id = 1
  THEN "{\"product\":{\"id\":1,\"name\":\"Laptop\"},\"action\":\"create\"}"
  ELSE "{\"product\":{\"id\":2,\"name\":\"Laptop A\"},\"action\":\"update\"}"

\* the payloads that may arrive on the topic: an empty one, one that is not
\* JSON, the ones main publishes, and a JSON object without a product
Payloads ==
  {"", "{not json", "{\"action\":\"create\"}"} \cup {ToBytes(msg) : msg \in Messages}

\* var data ProductMessage
ZeroMessage == [product |-> <<>>, action |-> ""]

\* json.Unmarshal([]byte(payload), &data): the error and what data holds
Unmarshal(payload) ==
  CASE payload = "{\"product\":{\"id\":1,\"name\":\"Laptop\"},\"action\":\"create\"}" ->
         [err |-> "nil",
          data |-> [product |-> <<[id |-> 1, name |-> "Laptop"]>>,
                    action |-> "create"]]
    [] payload = "{\"product\":{\"id\":2,\"name\":\"Laptop A\"},\"action\":\"update\"}" ->
         [err |-> "nil",
          data |-> [product |-> <<[id |-> 2, name |-> "Laptop A"]>>,
                    action |-> "update"]]
    [] payload = "{\"action\":\"create\"}" ->
         [err |-> "nil", data |-> [product |-> <<>>, action |-> "create"]]
    [] OTHER -> [err |-> "syntax error", data |-> ZeroMessage]

\* mutant of ListenOutcome: the error of json.Unmarshal is not looked at
ListenOutcomeIgnoresErr(payload) ==
  IF payload = "" THEN "skip"
  ELSE IF Unmarshal(payload).data.product = <<>> THEN "panic"
  ELSE "process"

\* what Listen does with a received message: it skips an empty payload and
\* one that does not unmarshal; otherwise it prints data.Product.ID,
\* data.Product.Name and data.Action, which dereferences data.Product
ListenOutcome(payload) ==
  IF payload = "" THEN "skip"
  ELSE IF Unmarshal(payload).err # "nil" THEN "skip"
  ELSE IF Unmarshal(payload).data.product = <<>> THEN "panic"
  ELSE "process"

\* the values of the Printf of Listen
Printed(data) ==
  [id |-> data.product[1].id, name |-> data.product[1].name,
   action |-> data.action]

\* go productSub.Listen(ctx): Subscribe and pubSub.Channel()
ListenStart ==
  /\ spc = "idle"
  /\ spc' = "listening"
  /\ UNCHANGED <<chan, chClosed, ctxDone, subClosed, delivered, taken,
                 processed, published, pubErr>>
  /\ UNCHANGED <<sfVars, lockVars, cacheVars, bankVars, userVars, confVars>>

\* Publisher.Publish(ctx, "product", payload): it fails on a cancelled
\* context; the message reaches the channel of a subscription that is open
Publish(payload) ==
  /\ published < MaxMsgs
  /\ published' = published + 1
  /\ IF ctxDone
     THEN /\ pubErr' = "context canceled"
          /\ UNCHANGED <<chan, delivered>>
     ELSE /\ pubErr' = "nil"
          /\ IF spc = "listening" /\ ~chClosed
             THEN /\ chan' = Append(chan, payload)
                  /\ delivered' = Append(delivered, payload)
             ELSE UNCHANGED <<chan, delivered>>
  /\ UNCHANGED <<spc, chClosed, ctxDone, subClosed, taken, processed>>
  /\ UNCHANGED <<sfVars, lockVars, cacheVars, bankVars, userVars, confVars>>

\* cancel()
Cancel ==
  /\ ~ctxDone
  /\ ctxDone' = TRUE
  /\ UNCHANGED <<spc, chan, chClosed, subClosed, delivered, taken, processed,
                 published, pubErr>>
  /\ UNCHANGED <<sfVars, lockVars, cacheVars, bankVars, userVars, confVars>>

\* the redis client is closed by its owner, which closes ch
ChanClose ==
  /\ spc = "listening"
  /\ ~chClosed
  /\ chClosed' = TRUE
  /\ UNCHANGED <<spc, chan, ctxDone, subClosed, delivered, taken, processed,
                 published, pubErr>>
  /\ UNCHANGED <<sfVars, lockVars, cacheVars, bankVars, userVars, confVars>>

\* select, case <-ctx.Done(): Listen returns and its deferred
\* pubSub.Close() runs
ListenDone ==
  /\ spc = "listening"
  /\ ctxDone
  /\ spc' = "returned"
  /\ subClosed' = TRUE
  /\ chClosed' = TRUE
  /\ UNCHANGED <<chan, ctxDone, delivered, taken, processed, published, pubErr>>
  /\ UNCHANGED <<sfVars, lockVars, cacheVars, bankVars, userVars, confVars>>

\* select, case msg, ok := <-ch with a message: one pass of the loop body.
\* A nil pointer dereference panics: the deferred pubSub.Close() runs and
\* the program ends.
ListenReceive ==
  /\ spc = "listening"
  /\ chan # <<>>
  /\ chan' = Tail(chan)
  /\ taken' = taken + 1
  /\ LET payload == Head(chan)
         outcome == ListenOutcome(payload)
     IN /\ processed' = IF outcome = "process"
                        THEN Append(processed, Printed(Unmarshal(payload).data))
                        ELSE processed
        /\ spc' = IF outcome = "panic" THEN "panicked" ELSE "listening"
        /\ subClosed' = IF outcome = "panic" THEN TRUE ELSE subClosed
        /\ chClosed' = IF outcome = "panic" THEN TRUE ELSE chClosed
  /\ UNCHANGED <<ctxDone, delivered, published, pubErr>>
  /\ UNCHANGED <<sfVars, lockVars, cacheVars, bankVars, userVars, confVars>>

\* select, case msg, ok := <-ch on the closed and drained channel: Listen
\* returns and its deferred pubSub.Close() runs
ListenClosed ==
  /\ spc = "listening"
  /\ chan = <<>>
  /\ chClosed
  /\ spc' = "returned"
  /\ subClosed' = TRUE
  /\ UNCHANGED <<chan, chClosed, ctxDone, delivered, taken, processed,
                 published, pubErr>>
  /\ UNCHANGED <<sfVars, lockVars, cacheVars, bankVars, userVars, confVars>>

NextPub ==
  \/ ListenStart
  \/ \E payload \in Payloads : Publish(payload)
  \/ Cancel
  \/ ChanClose
  \/ ListenDone
  \/ ListenReceive
  \/ ListenClosed

SpecPub == Init /\ [][NextPub]_vars

(***************************************************************************)
(* Package configs: Init and Get around one sync.Once.  The function that  *)
(* once.Do runs takes two steps, so that calls made while it runs see the  *)
(* Once as running.  Get reads initialized without synchronisation: a read *)
(* that races with the write may still see false.                          *)
(***************************************************************************)
\* mutant of OnceRuns: no Once guards the function
OnceRunsAlways(o) == TRUE

\* once.Do(f): whether this call is the one that runs f
OnceRuns(o) == o = "new"

\* mutant of InitErr: the error of godotenv.Load is kept
InitErrKeepsLoad(loadErr, procErr) ==
  IF loadErr # "nil" THEN loadErr ELSE procErr

\* the variable err of Init after the function passed to once.Do has run:
\* the assignment from envconfig.Process replaces the one from
\* godotenv.Load
InitErr(loadErr, procErr) == procErr

\* what the read of initialized in Get may yield
ReadInitialized(v) == IF v THEN {"true", "false"} ELSE {"false"}

\* what the call returns once Init has returned err to it
ConfReturn(op, err) ==
  IF op = "Init" THEN [err |-> err, ptr |-> "none"]
  ELSE [err |-> "none", ptr |-> "&conf"]

\* a call of configs.Init: var err error, up to once.Do
CallInit(p) ==
  /\ ~exited
  /\ cpc[p] = "idle"
  /\ p = cstarted + 1
  /\ cstarted' = cstarted + 1
  /\ cop' = [cop EXCEPT ![p] = "Init"]
  /\ cpc' = [cpc EXCEPT ![p] = "do"]
  /\ UNCHANGED <<once, initialized, bodyRuns, envres, exited, cret>>
  /\ UNCHANGED <<sfVars, lockVars, cacheVars, bankVars, userVars, pubVars>>

\* a call of configs.Get: it returns &conf if it reads initialized as true
\* and calls Init otherwise
CallGet(p, seen) ==
  /\ ~exited
  /\ cpc[p] = "idle"
  /\ p = cstarted + 1
  /\ seen \in ReadInitialized(initialized)
  /\ cstarted' = cstarted + 1
  /\ cop' = [cop EXCEPT ![p] = "Get"]
  /\ IF seen = "true"
     THEN /\ cpc' = [cpc EXCEPT ![p] = "ret"]
          /\ cret' = [cret EXCEPT ![p] = [seen |-> seen, err |-> "none",
                                          ptr |-> "&conf"]]
     ELSE /\ cpc' = [cpc EXCEPT ![p] = "do"]
          /\ cret' = [cret EXCEPT ![p].seen = seen]
  /\ UNCHANGED <<once, initialized, bodyRuns, envres, exited>>
  /\ UNCHANGED <<sfVars, lockVars, cacheVars, bankVars, userVars, pubVars>>

\* once.Do by the call that runs the function: godotenv.Load, then
\* envconfig.Process, whose failure ends the process in log.Fatal, then
\* initialized = true
OnceBody(p, loadErr, procErr) ==
  /\ ~exited
  /\ cpc[p] = "do"
  /\ once # "running"
  /\ OnceRuns(once)
  /\ once' = "running"
  /\ bodyRuns' = bodyRuns + 1
  /\ envres' = [loadErr |-> loadErr, procErr |-> procErr]
  /\ IF procErr # "nil"
     THEN /\ exited' = TRUE
          /\ UNCHANGED <<initialized, cpc>>
     ELSE /\ exited' = exited
          /\ initialized' = TRUE
          /\ cpc' = [cpc EXCEPT ![p] = "body"]
  /\ UNCHANGED <<cstarted, cop, cret>>
  /\ UNCHANGED <<sfVars, lockVars, cacheVars, bankVars, userVars, pubVars>>

\* the function passed to once.Do returns: the Once is done and Init
\* returns err to the call that ran it
OnceBodyEnd(p) ==
  /\ ~exited
  /\ cpc[p] = "body"
  /\ once' = "done"
  /\ cpc' = [cpc EXCEPT ![p] = "ret"]
  /\ LET r == ConfReturn(cop[p], InitErr(envres.loadErr, envres.procErr))
     IN cret' = [cret EXCEPT ![p].err = r.err, ![p].ptr = r.ptr]
  /\ UNCHANGED <<initialized, bodyRuns, envres, exited, cstarted, cop>>
  /\ UNCHANGED <<sfVars, lockVars, cacheVars, bankVars, userVars, pubVars>>

\* once.Do by a call that does not run the function: it returns once the
\* function has returned, and Init returns its own nil err
OnceSkip(p) ==
  /\ ~exited
  /\ cpc[p] = "do"
  /\ once # "running"
  /\ ~OnceRuns(once)
  /\ cpc' = [cpc EXCEPT ![p] = "ret"]
  /\ LET r == ConfReturn(cop[p], "nil")
     IN cret' = [cret EXCEPT ![p].err = r.err, ![p].ptr = r.ptr]
  /\ UNCHANGED <<once, initialized, bodyRuns, envres, exited, cstarted, cop>>
  /\ UNCHANGED <<sfVars, lockVars, cacheVars, bankVars, userVars, pubVars>>

NextConf ==
  \/ \E p \in CProcs : CallInit(p)
  \/ \E p \in CProcs, seen \in {"true", "false"} : CallGet(p, seen)
  \/ \E p \in CProcs, loadErr \in {"nil", "no .env"},
        procErr \in {"nil", "bad value"} : OnceBody(p, loadErr, procErr)
  \/ \E p \in CProcs : OnceBodyEnd(p)
  \/ \E p \in CProcs : OnceSkip(p)

SpecConf == Init /\ [][NextConf]_vars

(***************************************************************************)
(* Properties of the single-flight wrapper.                                *)
(***************************************************************************)
\* the invocation ran its own work function
Leader(p) == callOf[p] # 0 /\ calls[callOf[p]].owner = p

\* the calls of key k whose work function is running
Running(k) == {c \in CallsOf(k) : ~calls[c].done}

\* the calls of key k that a Forget removed from the registry
Forgotten(k) == {c \in CallsOf(k) : calls[c].forgotten}

\* the invocations on key k that entered before any call of k completed
FirstWave(k) ==
  {p \in Procs : pc[p] # "idle" /\ key[p] = k /\ ~entry[p].afterDone}

\* C1: coalescing correctness.  While no Forget removed a call of the key,
\* the invocations on that key issued before the first completion are served
\* by exactly one execution of the work function, and those of one result
\* type that have returned hold the identical (value, error) pair.
C1_Coalescing ==
  \A k \in Keys :
    (Forgotten(k) = {} /\ FirstWave(k) # {}) =>
      /\ Cardinality({p \in FirstWave(k) : Leader(p)}) = 1
      /\ Cardinality({callOf[p] : p \in FirstWave(k)}) = 1
      /\ \A p, q \in FirstWave(k) :
           (pc[p] = "done" /\ pc[q] = "done" /\ typ[p] = typ[q])
             => ret[p] = ret[q]

\* C1 witness: every invocation was issued on k1 before the first completion,
\* one ran the work function, the others joined it, and all have returned.
C1_Witness ==
  /\ \A p \in Procs : pc[p] = "done" /\ key[p] = "k1" /\ typ[p] = "P"
                      /\ ~entry[p].afterDone
  /\ Forgotten("k1") = {}
  /\ \E c \in CallsOf("k1") : calls[c].dups = NCalls - 1
  /\ \A p \in Procs : ret[p] = [val |-> [raw |-> "p1"], err |-> "nil"]

\* C3: registry invariant.  Each key has at most one entry in the registry,
\* and an entry is a live call of that key.
C3_RegistryAtMostOne ==
  /\ \A k \in Keys : Cardinality(Lookup(m, k)) <= 1
  /\ \A e \in m : /\ e[2] \in 1..Len(calls)
                  /\ calls[e[2]].key = e[1]
                  /\ ~calls[e[2]].done

\* C3 witness: a key has a registered live call while an older call of the
\* same key, removed by Forget, is still in flight.
C3_Witness ==
  \E k \in Keys : \E c \in Lookup(m, k) :
    \E d \in Running(k) : d < c /\ calls[c].dups >= 1

\* C4 as stated: a key absent from the registry has no execution in flight.
C4_AbsentMeansIdle ==
  \A k \in Keys : Lookup(m, k) = {} => Running(k) = {}

\* C4 amended: a key absent from the registry has no execution in flight
\* other than executions whose call a Forget removed from the registry.
C4_AbsentMeansIdleOrForgotten ==
  \A k \in Keys : Lookup(m, k) = {} => Running(k) \subseteq Forgotten(k)

\* C4 witness: a key is absent from the registry while a forgotten call of it
\* is still running, and another key is absent with all its calls completed.
C4_Witness ==
  \E k, j \in Keys :
    /\ k # j
    /\ Lookup(m, k) = {} /\ Running(k) # {}
    /\ Lookup(m, j) = {} /\ CallsOf(j) # {} /\ Running(j) = {}

\* C5 as stated: at most one execution per key is running at any instant.
C5_OneRunning ==
  \A k \in Keys : Cardinality(Running(k)) <= 1

\* C5 amended: per key, at most one execution whose call was not removed by
\* Forget is running at any instant, and the running executions number at
\* most one more than the calls of the key that Forget removed.
C5_OneRunningUnlessForgotten ==
  \A k \in Keys :
    /\ Cardinality(Running(k) \ Forgotten(k)) <= 1
    /\ Cardinality(Running(k)) <= 1 + Cardinality(Forgotten(k))

\* C5 witness: two executions of one key are running, one of them forgotten.
C5_Witness ==
  \E k \in Keys : /\ Cardinality(Running(k)) = 2
                  /\ Cardinality(Running(k) \ Forgotten(k)) = 1

\* C6: Forget semantics.  An invocation that has returned holds the result
\* of the call it joined, forgotten or not, and no invocation is attached to
\* a call that a Forget had removed before the invocation entered: entering
\* while every registered call of the key is forgotten starts an execution.
C6_ForgetSemantics ==
  /\ \A p \in Procs :
       pc[p] = "done" =>
         /\ calls[callOf[p]].done
         /\ ret[p] = WrapperResult(typ[p], calls[callOf[p]].val,
                                   calls[callOf[p]].err)
  /\ \A p \in Procs :
       pc[p] # "idle" => /\ ~entry[p].callForgotten
                         /\ (entry[p].absent => Leader(p))

\* C6 witness: a forgotten call completed and its waiter returned its result
\* while the execution started after the Forget is still running.
C6_Witness ==
  \E c, d \in 1..Len(calls) :
    /\ c < d /\ calls[c].key = calls[d].key
    /\ calls[c].forgotten /\ calls[c].done /\ calls[c].err = "E1"
    /\ ~calls[d].done /\ d \in Lookup(m, calls[d].key)
    /\ \E p \in Procs : /\ callOf[p] = c /\ ~Leader(p) /\ pc[p] = "done"
                        /\ typ[p] = "P" /\ ret[p].err = "E1"

\* C7: generation isolation.  No invocation is attached to a call that had
\* completed when the invocation entered, and an invocation that enters when
\* every call of its key has completed runs its own work function and
\* returns that execution's result.
C7_GenerationIsolation ==
  \A p \in Procs :
    pc[p] # "idle" =>
      /\ ~entry[p].callDone
      /\ entry[p].allDone =>
           /\ Leader(p)
           /\ pc[p] = "done" =>
                ret[p] = WrapperResult(typ[p], calls[callOf[p]].val,
                                       calls[callOf[p]].err)

\* C7 witness: an invocation that entered after a call of its key completed
\* ran the work function again and returned a different result.
C7_Witness ==
  \E p, q \in Procs :
    /\ p # q /\ key[p] = key[q] /\ typ[p] = "P" /\ typ[q] = "P"
    /\ pc[p] = "done" /\ pc[q] = "done"
    /\ entry[q].afterDone /\ entry[q].allDone /\ Leader(q) /\ Leader(p)
    /\ ret[p] = [val |-> [raw |-> "p1"], err |-> "nil"]
    /\ ret[q] = [val |-> [raw |-> "nil"], err |-> "E1"]

\* C8 as stated: when the work function returned an error, every invocation
\* attached to that call returns that same error, the call is deregistered
\* and is joined by no later invocation.
C8_FailureShared ==
  /\ \A p \in Procs :
       (pc[p] = "done" /\ calls[callOf[p]].err # "nil")
         => ret[p].err = calls[callOf[p]].err
  /\ \A c \in 1..Len(calls) :
       (calls[c].done /\ calls[c].err # "nil") => <<calls[c].key, c>> \notin m

\* C9 as stated: every invocation returns exactly the error that the one
\* execution of the work function returned.
C9_ErrorPassThrough ==
  \A p \in Procs :
    pc[p] = "done" => ret[p].err = calls[callOf[p]].err

\* C10: a type mismatch is reported, never coerced.  An invocation whose call
\* stored a value whose dynamic type is not T returns the zero value of T and
\* the type-assertion error; one whose call stored a value of dynamic type T
\* returns that value and the error of the work function.
C10_TypeMismatchReported ==
  \A p \in Procs :
    pc[p] = "done" =>
      LET c == calls[callOf[p]]
      IN /\ (typ[p] = "P" /\ c.val.dyn = "P")
              => ret[p] = [val |-> [raw |-> c.val.v], err |-> c.err]
         /\ (typ[p] = "P" /\ c.val.dyn # "P")
              => ret[p] = [val |-> [raw |-> "nil"], err |-> ErrTypeAssertion]
         /\ (typ[p] = "I" /\ c.val.dyn # "nil")
              => ret[p] = [val |-> c.val, err |-> c.err]
         /\ (typ[p] = "I" /\ c.val.dyn = "nil")
              => ret[p] = [val |-> NilIface, err |-> ErrTypeAssertion]

\* C10 witness: an invocation of result type *Product joined a call that
\* stored a string and returned nil with the type-assertion error, and the
\* invocation that stored it returned the string with no error.
C10_Witness ==
  \E p, q \in Procs :
    /\ pc[p] = "done" /\ pc[q] = "done" /\ callOf[p] = callOf[q]
    /\ typ[p] = "P" /\ typ[q] = "I" /\ Leader(q)
    /\ calls[callOf[p]].val = [dyn |-> "S", v |-> "s1"]
    /\ ret[p] = [val |-> [raw |-> "nil"], err |-> ErrTypeAssertion]
    /\ ret[q] = [val |-> [dyn |-> "S", v |-> "s1"], err |-> "nil"]

\* call c completes in this step: its result is stored and broadcast
Completes(c) == ~calls[c].done /\ calls'[c].done

\* call c is forgotten in this step
ForgottenNow(c) == ~calls[c].forgotten /\ calls'[c].forgotten

\* the invocation joined a call that another invocation registered
Joined(p) == callOf[p] # 0 /\ calls[callOf[p]].owner # p

\* C21: completion is atomic with respect to registration.  A completed
\* call is never in the registry, so no invocation joins a call whose
\* completion has been broadcast; an invocation whose lookup comes after
\* the completion of every call of its key starts a new call; an invocation
\* that joined returns what Do hands it from the completed call, the value
\* and the error together.
C21_CompletionAtomic ==
  /\ \A e \in m : ~calls[e[2]].done
  /\ \A p \in Procs :
       callOf[p] # 0 =>
         /\ ~entry[p].callDone
         /\ entry[p].allDone => Leader(p)
         /\ (Joined(p) /\ pc[p] = "done") =>
              /\ calls[callOf[p]].done
              /\ ret[p] = WrapperResult(typ[p], calls[callOf[p]].val,
                                        calls[callOf[p]].err)

\* C21 witness: one invocation joined a call before its completion and has
\* returned its result; a later invocation on the same key, whose lookup
\* came after the completion, registered a new call.
C21_Witness ==
  \E p, q \in Procs :
    /\ p # q /\ key[p] = key[q]
    /\ Joined(p) /\ pc[p] = "done"
    /\ ret[p].val = [raw |-> "p1"] /\ ret[p].err = "nil"
    /\ Leader(q) /\ entry[q].afterDone /\ callOf[q] # callOf[p]

\* C22 as stated: a call leaves the registry only in the step in which its
\* completion is broadcast.
C22_RemovedOnlyAtCompletion ==
  [][\A e \in m : e \notin m' => Completes(e[2])]_vars

\* C22: a call leaves the registry in the step of its completion or, before
\* that, in the step of a Forget of its key; a completed call is never
\* registered; and every invocation that joined a call, forgotten or not,
\* returns the result of that call once it is complete.
C22_RemovedAtCompletionOrForget ==
  /\ [](\A e \in m : ~calls[e[2]].done)
  /\ [](\A p \in Procs :
          (Joined(p) /\ pc[p] = "done") =>
            /\ calls[callOf[p]].done
            /\ ret[p] = WrapperResult(typ[p], calls[callOf[p]].val,
                                      calls[callOf[p]].err))
  /\ [][\A e \in m :
          e \notin m' => (Completes(e[2]) \/ ForgottenNow(e[2]))]_vars

\* C22 witness: a call was forgotten while running, completed afterwards,
\* and an invocation that had joined it has returned its result.
C22_Witness ==
  \E p \in Procs :
    /\ Joined(p) /\ pc[p] = "done"
    /\ calls[callOf[p]].forgotten /\ calls[callOf[p]].done
    /\ ret[p].err = "nil" /\ ret[p].val = [raw |-> "p1"]

\* C23: independence of keys.  An invocation is only ever attached to a
\* call of its own key; an invocation whose key no other invocation uses
\* runs its own work function; a Forget of one key leaves the registry
\* entries of every other key as they were.
C23_KeysIndependent ==
  /\ [](\A p \in Procs :
          callOf[p] # 0 =>
            /\ calls[callOf[p]].key = key[p]
            /\ (\A q \in Procs \ {p} : callOf[q] # 0 => key[q] # key[p])
                 => Leader(p))
  /\ [][\A c \in 1..Len(calls) :
          ForgottenNow(c) =>
            {e \in m' : e[1] # calls[c].key} = {e \in m : e[1] # calls[c].key}]_vars

\* C23 witness: calls of two keys are in flight at once, each run by its
\* own invocation, and after a Forget of the first key the call of the
\* second is still registered.
C23_Witness ==
  \E p, q \in Procs :
    /\ key[p] = "k1" /\ key[q] = "k2"
    /\ Leader(p) /\ Leader(q)
    /\ pc[p] = "running" /\ pc[q] = "running"
    /\ calls[callOf[p]].forgotten
    /\ <<"k2", callOf[q]>> \in m
    /\ entry[q].absent

\* invocation p is running the work function of call c
Executing(p, c) == callOf[p] = c /\ pc[p] = "running"

\* invocation p starts running a work function in this step
StartsExecution(p) == pc[p] # "running" /\ pc'[p] = "running"

\* C31: one execution per generation.  Every call ever registered has had
\* its work function started exactly once, by the invocation that
\* registered it (it is running once or has run once); an invocation that
\* joined a call never runs a work function; and a work function is started
\* only in the step that registers a new call, by the owner of that call.
\* So for every key the number of executions started equals the number of
\* calls registered.
C31_OneExecutionPerGeneration ==
  /\ [](\A c \in 1..Len(calls) :
          LET o == calls[c].owner
          IN /\ callOf[o] = c
             /\ calls[c].execs = IF Executing(o, c) THEN 0 ELSE 1
             /\ \A p \in Procs : Executing(p, c) => p = o)
  /\ [](\A p \in Procs : Joined(p) => pc[p] \in {"waiting", "done"})
  /\ [][\A p \in Procs :
          StartsExecution(p) =>
            /\ Len(calls') = Len(calls) + 1
            /\ callOf'[p] = Len(calls')
            /\ calls'[Len(calls')].owner = p
            /\ <<key'[p], Len(calls')>> \in m']_vars

\* C31 witness: a key has had two generations, the first forgotten; both
\* work functions have run once, and an invocation that joined the first
\* has returned without running one.
C31_Witness ==
  \E c, d \in 1..Len(calls), p \in Procs :
    /\ c # d /\ calls[c].key = calls[d].key
    /\ calls[c].forgotten
    /\ calls[c].execs = 1 /\ calls[d].execs = 1
    /\ Joined(p) /\ callOf[p] = c /\ pc[p] = "done"

(***************************************************************************)
(* Properties of getProductFromCache.                                      *)
(***************************************************************************)
\* the calls whose work function has returned
DoneCalls == {c \in 1..Len(calls) : calls[c].done}

\* the calls whose work function has read redis
ReadCalls == {c \in Procs : fetched[c] # "none"}

\* one read of redis per call: the reads made are those of the calls whose
\* work function has got to rdb.Get, among them every call that is done
OneReadPerCall ==
  /\ reads = Cardinality(ReadCalls)
  /\ DoneCalls \subseteq ReadCalls
  /\ ReadCalls \subseteq 1..Len(calls)

\* the successful return of the stored product
GotProduct == [val |-> [raw |-> "p1"], err |-> <<>>]

\* the return of a nil product and a nil error
GotNothing == [val |-> [raw |-> "nil"], err |-> <<>>]

\* C11: an invocation for a product that is present in the cache neither
\* registers nor joins a call of the coalescer; the coalescer is entered
\* only after a miss.
C11_HitBypassesCoalescer ==
  \A p \in Procs :
    (pc[p] # "idle" /\ cache[PidOf(key[p])] # "none") => callOf[p] = 0

\* the run of main: every invocation asked for product 1, which is stored
\* and was read without error, exactly one of them had currIdx 2, its
\* Forget is the only one of the run, and all have returned
MainRunDone ==
  /\ \A p \in Procs : pc[p] = "done" /\ key[p] = "k1"
  /\ cache[1] = "good"
  /\ Cardinality({p \in Procs : gidx[p] = 2}) = 1
  /\ twos = 1 /\ pending[1] = 0
  /\ \A c \in CallsOf("k1") : fetched[c] = "good"

\* C12 as stated: the run of main results in exactly one execution of the
\* coalesced fetch and identical successful returns.
C12_StampedeOneFetch ==
  MainRunDone =>
    /\ Cardinality(CallsOf("k1")) = 1
    /\ \A p \in Procs : gret[p] = GotProduct

\* C12 amended: the run of main results in at least one execution of the
\* coalesced fetch, one read of redis per execution, and identical
\* successful returns; the execution is a single one if and only if every
\* invocation entered before the first completion and the Forget of the
\* invocation with currIdx 2 removed no call.
C12_StampedeCoalesced ==
  MainRunDone =>
    /\ Cardinality(CallsOf("k1")) >= 1
    /\ reads = Cardinality(CallsOf("k1"))
    /\ \A p \in Procs : gret[p] = GotProduct
    /\ Cardinality(CallsOf("k1")) = 1
         <=> (Forgotten("k1") = {} /\ \A p \in Procs : ~entry[p].afterDone)

\* C12 witness: the run of main ended with two executions, the Forget of
\* the invocation with currIdx 2 having removed the first call in flight.
C12_Witness ==
  /\ MainRunDone
  /\ Cardinality(CallsOf("k1")) = 2
  /\ Cardinality(Forgotten("k1")) = 1
  /\ \E c \in CallsOf("k1") : calls[c].dups >= 1

\* C19: not found is not an error.  An invocation attached to a call whose
\* read found nothing (redis.Nil) returns a nil product and a nil error; one
\* attached to a call whose read failed in transport or in unmarshalling
\* returns a nil product and a non-nil error.
C19_NotFoundIsNotAnError ==
  \A p \in Procs :
    pc[p] = "done" =>
      /\ fetched[callOf[p]] = "redis.Nil" => gret[p] = GotNothing
      /\ fetched[callOf[p]] \in {"EIO", "bad"} =>
           (gret[p].val = [raw |-> "nil"] /\ gret[p].err # <<>>)

\* C19 witness: two invocations share a call whose read found nothing and
\* both returned a nil product and a nil error, while an invocation whose
\* read failed returned an error.
C19_Witness ==
  \E p, q, r \in Procs :
    /\ p # q /\ callOf[p] = callOf[q] /\ callOf[p] # 0
    /\ pc[p] = "done" /\ pc[q] = "done" /\ pc[r] = "done"
    /\ fetched[callOf[p]] = "redis.Nil"
    /\ gret[p] = GotNothing /\ gret[q] = GotNothing
    /\ fetched[callOf[r]] = "EIO" /\ gret[r].err # <<>>

\* C20: an unmarshal failure is a fetch error.  An invocation attached to a
\* call whose read gave a value that does not unmarshal returns a nil
\* product and the wrapped unmarshal error, never a nil error, and the value
\* was read once for that call.
C20_UnmarshalFailureIsError ==
  /\ \A p \in Procs :
       (pc[p] = "done" /\ fetched[callOf[p]] = "bad") =>
         gret[p] = [val |-> [raw |-> "nil"],
                    err |-> <<"Failed to get product from cache",
                              ErrUnmarshal>>]
  /\ OneReadPerCall

\* C20 witness: two invocations share a call whose read gave a value that
\* does not unmarshal, and both returned the error.
C20_Witness ==
  \E p, q \in Procs :
    /\ p # q /\ callOf[p] = callOf[q] /\ callOf[p] # 0
    /\ pc[p] = "done" /\ pc[q] = "done"
    /\ fetched[callOf[p]] = "bad" /\ reads = 1
    /\ gret[p].err # <<>> /\ gret[q] = gret[p]

(***************************************************************************)
(* Properties of the lock.                                                 *)
(***************************************************************************)
\* the invocation is in its critical section inside its lease window
HoldsLease(p) == lpc[p] = "cs" /\ now < until[p]

\* C2: mutual exclusion.  The store records at most one owner per name, and
\* no two invocations on one name are in their critical sections while both
\* leases are unexpired and unreleased.
C2_MutualExclusion ==
  /\ \A n \in LNames : Cardinality(Leases(store, n)) <= 1
  /\ \A p, q \in LProcs :
       (p # q /\ lname[p] = lname[q]) => ~(HoldsLease(p) /\ HoldsLease(q))

\* C2 witness: one invocation holds an unexpired lease and another Lock on
\* the same name has failed.
C2_Witness ==
  \E p, q \in LProcs :
    /\ p # q /\ lname[p] = lname[q]
    /\ HoldsLease(p) /\ IsOwner(store, lname[p], p)
    /\ lres[q].lockErr = "ErrFailed"

\* invocation p makes an acquisition attempt in this step
Attempts(p) == lpc[p] = "lock" /\ tries'[p] = tries[p] + 1

\* invocation p runs its deferred Unlock in this step
Unlocks(p) == lpc[p] = "cs" /\ lpc'[p] = "ret"

\* C13: ownership-safe unlock.  An Unlock by an invocation whose value is not
\* the one stored under the name removes nothing from the store and reports
\* released = false; an Unlock by the owner removes exactly its own record.
C13_OwnershipSafeUnlock ==
  [][\A p \in LProcs :
       Unlocks(p) =>
         IF IsOwner(store, lname[p], p)
         THEN /\ lres'[p].released = TRUE
              /\ store' = store \ {r \in store : r.name = lname[p]}
         ELSE /\ lres'[p].released = FALSE
              /\ store' = store]_vars

\* C13 witness: an invocation whose lease expired has run its Unlock, got
\* released = false, and the invocation that acquired the name after it
\* still owns the name.
C13_Witness ==
  \E p, q \in LProcs :
    /\ p # q /\ lname[p] = lname[q]
    /\ lpc[p] = "ret" /\ lres[p].unlocks = 1 /\ lres[p].released = FALSE
    /\ lpc[q] = "cs" /\ until[p] <= until[q] - Expiry
    /\ IsOwner(store, lname[q], q)

\* C14: lock contention.  An attempt on a name that has a live lease does
\* not acquire and leaves the store as it is, and the Lock call whose last
\* attempt it was returns the contention error; an attempt on a free name
\* acquires it; the owner's Unlock leaves the name free.
C14_ContentionThenReuse ==
  [][\A p \in LProcs :
       /\ Attempts(p) =>
            IF Leases(store, lname[p]) # {}
            THEN /\ lpc'[p] # "cs"
                 /\ store' = store
                 /\ tries'[p] >= MaxTries => lres'[p].lockErr = "ErrFailed"
            ELSE /\ lpc'[p] = "cs"
                 /\ lres'[p].lockErr = "nil"
                 /\ IsOwner(store', lname[p], p)
       /\ (Unlocks(p) /\ IsOwner(store, lname[p], p)) =>
            /\ Leases(store', lname[p]) = {}
            /\ lres'[p].released = TRUE]_vars

\* C14 witness: on one name, A has acquired and released, B's Lock inside
\* A's lease has failed, and C, arriving after A's Unlock, holds the name.
C14_Witness ==
  \E a, b, c \in LProcs :
    /\ a # b /\ b # c /\ a # c
    /\ lname[a] = lname[b] /\ lname[b] = lname[c]
    /\ lpc[a] = "ret" /\ lres[a].released = TRUE
    /\ lpc[b] = "ret" /\ lres[b].lockErr = "ErrFailed"
    /\ lpc[c] = "cs" /\ IsOwner(store, lname[c], c)
    /\ now < until[a]

\* an unreleased lease on p's name, held by another invocation, is still
\* unexpired
LiveHolder(p) ==
  \E q \in LProcs : q # p /\ lname[q] = lname[p] /\ HoldsLease(q)

\* C15: expiry safety net.  The leases of holders that never released do
\* not overlap, and an attempt succeeds exactly when no other holder's
\* unreleased lease on the name is unexpired: a lease that was never
\* released stops blocking once its expiry has passed.
C15_ExpirySafetyNet ==
  /\ [](\A p, q \in LProcs :
          (p # q /\ lname[p] = lname[q] /\ lpc[p] = "cs" /\ lpc[q] = "cs")
            => (until[p] + Expiry <= until[q] \/ until[q] + Expiry <= until[p]))
  /\ [][\A p \in LProcs :
          Attempts(p) => (lpc'[p] = "cs" <=> ~LiveHolder(p))]_vars

\* C15 witness: A never unlocked and its lease has expired; B failed an
\* attempt while A's lease was live and acquired the name afterwards.
C15_Witness ==
  \E a, b \in LProcs :
    /\ a # b /\ lname[a] = lname[b]
    /\ lpc[a] = "cs" /\ lres[a].unlocks = 0 /\ until[a] <= now
    /\ lpc[b] = "cs" /\ tries[b] >= 2 /\ HoldsLease(b)
    /\ IsOwner(store, lname[b], b)

\* C16: Unlock on every exit path.  An invocation that has returned after a
\* successful Lock ran the critical section and called Unlock exactly once;
\* one whose Lock failed never entered it and never called Unlock; Unlock
\* is not called before the function returns.
C16_UnlockOnEveryExit ==
  \A p \in LProcs :
    /\ lpc[p] # "ret" => lres[p].unlocks = 0
    /\ (lpc[p] = "ret" /\ lres[p].lockErr = "nil")
         => (lres[p].entered /\ lres[p].unlocks = 1)
    /\ (lpc[p] = "ret" /\ lres[p].lockErr # "nil")
         => (~lres[p].entered /\ lres[p].unlocks = 0)

\* C16 witness: one invocation returned through the deferred Unlock and
\* another returned on the failed-Lock path.
C16_Witness ==
  \E p, q \in LProcs :
    /\ lpc[p] = "ret" /\ lres[p].lockErr = "nil" /\ lres[p].unlocks = 1
    /\ lpc[q] = "ret" /\ lres[q].lockErr = "ErrFailed"

\* C17: an Unlock that reports released = false or an error is surfaced to
\* the caller through the returned error.
C17_MismatchSurfaced ==
  \A p \in LProcs :
    (/\ lpc[p] = "ret" /\ lres[p].unlocks = 1
     /\ (lres[p].released = FALSE \/ lres[p].unlockErr # "nil"))
      => lres[p].err # "nil"

\* C18: contention is an error outcome.  A failed Lock is returned to the
\* caller as the function's error, the critical section is not entered, and
\* the failing attempt leaves the store, the existing lease included, as it
\* was.
C18_ContentionIsError ==
  /\ [](\A p \in LProcs :
          (lpc[p] = "ret" /\ lres[p].lockErr # "nil")
            => (lres[p].err = lres[p].lockErr /\ ~lres[p].entered))
  /\ [][\A p \in LProcs :
          (Attempts(p) /\ lpc'[p] # "cs") => store' = store]_vars

\* C18 witness: a Lock has failed with the contention error, which the
\* function returned, and the holder's lease is still in the store.
C18_Witness ==
  \E p, q \in LProcs :
    /\ p # q /\ lname[p] = lname[q]
    /\ lpc[q] = "ret" /\ lres[q].err = "ErrFailed" /\ ~lres[q].entered
    /\ lpc[p] = "cs" /\ IsOwner(store, lname[p], p)
    /\ \E r \in Leases(store, lname[p]) : r.exp = until[p]

\* C24: Lock makes a single acquisition attempt.  An attempt that finds an
\* unexpired lease for the name ends the Lock call with the error, and the
\* function returns it.
C24_SingleAttempt ==
  [][\A p \in LProcs :
       (Attempts(p) /\ Leases(store, lname[p]) # {}) =>
         /\ lpc'[p] = "ret"
         /\ lres'[p].lockErr = "ErrFailed"
         /\ lres'[p].err = "ErrFailed"]_vars

(***************************************************************************)
(* Properties of AddToBankAccount.                                         *)
(***************************************************************************)
\* the invocation is between its successful SET and its deferred DEL
InBankCS(p) == bpc[p] = "cs"

\* invocation p makes its GET in this step
BankGets(p) == bpc[p] = "idle" /\ bpc'[p] # "idle"

\* invocation p runs its deferred DEL in this step
BankDels(p) == bpc[p] = "cs" /\ bpc'[p] = "ret"

\* C28: mutual exclusion of the hand-rolled lock.  No two invocations with
\* the same accountId are in their critical sections at once.
C28_BankMutualExclusion ==
  \A p, q \in BProcs :
    (p # q /\ bacct[p] = bacct[q]) => ~(InBankCS(p) /\ InBankCS(q))

\* C29: owner-safe release.  The deferred DEL removes only a key that the
\* same invocation set, and never removes the key while another invocation
\* with the same accountId is in its critical section.
C29_BankOwnerSafeRelease ==
  [][\A p \in BProcs :
       BankDels(p) =>
         /\ \A r \in bstore \ bstore' : r.by = p
         /\ (bstore' # bstore =>
               ~\E q \in BProcs \ {p} : bacct[q] = bacct[p] /\ InBankCS(q))]_vars

\* C30: a call that finds the key returns nil without running the critical
\* section and leaves the store as it is; a call whose GET fails with an
\* error other than not-found returns that error and leaves the store as it
\* is.
C30_BankBusyReturnsNil ==
  [][\A p \in BProcs :
       BankGets(p) =>
         /\ BankKeys(bstore, BankKeyOf(bacct'[p])) # {} =>
              \/ /\ bres'[p].getErr = "nil"
                 /\ bpc'[p] = "ret"
                 /\ bres'[p].err = "nil"
                 /\ ~bres'[p].entered
                 /\ bstore' = bstore
              \/ bres'[p].getErr \notin {"nil", "redis.Nil"}
         /\ bres'[p].getErr \notin {"nil", "redis.Nil"} =>
              /\ bpc'[p] = "ret"
              /\ bres'[p].err = bres'[p].getErr
              /\ ~bres'[p].entered
              /\ bstore' = bstore]_vars

\* C30 witness: one invocation is in its critical section with its key in
\* the store; a second on the same account found the key and returned nil,
\* and a third's GET failed and returned the store's error.
C30_Witness ==
  \E p, q \in BProcs :
    /\ p # q /\ bacct[p] = bacct[q]
    /\ InBankCS(p) /\ BankKeys(bstore, BankKeyOf(bacct[p])) # {}
    /\ bpc[q] = "ret" /\ bres[q].getErr = "nil" /\ bres[q].err = "nil"
    /\ ~bres[q].entered /\ bres[q].dels = 0
    /\ \E r \in BProcs \ {p, q} :
         /\ bpc[r] = "ret" /\ bres[r].getErr = "EIO" /\ bres[r].err = "EIO"
         /\ ~bres[r].entered

(***************************************************************************)
(* Properties of UserServiceImpl.                                          *)
(***************************************************************************)
\* the service calls of the run so far
UserCalls(op) == {i \in 1..Len(ulog) : ulog[i].op = op}

\* the repository calls of method mth that service call i made
RepoCalls(i, mth) ==
  {j \in 1..Len(ulog[i].out.repo) : ulog[i].out.repo[j].method = mth}

\* C25: CreateUser for an email that exists returns an error and does not
\* call the repository's CreateUser; for one that does not exist it calls
\* the repository's CreateUser exactly once, with the user of the request,
\* and returns that call's error.
C25_CreateUserChecksExistence ==
  \A i \in UserCalls("CreateUser") :
    /\ (ulog[i].in.exist /\ ulog[i].in.existErr = NilErr) =>
         /\ ulog[i].out.err # NilErr
         /\ RepoCalls(i, "CreateUser") = {}
    /\ (~ulog[i].in.exist /\ ulog[i].in.existErr = NilErr) =>
         /\ Cardinality(RepoCalls(i, "CreateUser")) = 1
         /\ \A j \in RepoCalls(i, "CreateUser") :
              /\ ulog[i].out.repo[j].arg.name = ulog[i].in.arg.name
              /\ ulog[i].out.repo[j].arg.email = ulog[i].in.arg.email
         /\ ulog[i].out.err = ulog[i].in.createErr

\* C25 witness: one CreateUser was refused for an existing email and one
\* created its user.
C25_Witness ==
  \E i, j \in UserCalls("CreateUser") :
    /\ ulog[i].in.exist /\ ulog[i].in.existErr = NilErr
    /\ ulog[i].out.err = <<"user already exist">>
    /\ ~ulog[j].in.exist /\ ulog[j].in.existErr = NilErr
    /\ ulog[j].out.err = NilErr
    /\ Cardinality(RepoCalls(j, "CreateUser")) = 1

\* C26: when DoesUserExist returns an error, CreateUser still calls the
\* repository's CreateUser exactly once and returns an error.
C26_CreateUserAfterExistError ==
  \A i \in UserCalls("CreateUser") :
    ulog[i].in.existErr # NilErr =>
      /\ Cardinality(RepoCalls(i, "CreateUser")) = 1
      /\ ulog[i].out.err # NilErr

\* the lookups of the run so far
Lookups == UserCalls("GetUserByID") \cup UserCalls("GetUserByEmail")

\* C27 as stated: a successful lookup returns the repository's user and
\* nil; a failed one returns an error and the zero-valued User.
C27_LookupZeroOnError ==
  \A i \in Lookups :
    /\ ulog[i].in.err = NilErr =>
         (ulog[i].out.res = ulog[i].in.user /\ ulog[i].out.err = NilErr)
    /\ ulog[i].in.err # NilErr =>
         (ulog[i].out.err # NilErr /\ ulog[i].out.res = ZeroUser)

\* C27: a successful lookup returns the repository's user and nil; a failed
\* one returns an error ("user not found" for sql.ErrNoRows, "internal
\* server error" otherwise) and the User the repository returned with its
\* error, which is the zero-valued User when the repository returned that.
C27_LookupPassesUserThrough ==
  \A i \in Lookups :
    /\ ulog[i].out.res = ulog[i].in.user
    /\ ulog[i].in.err = NilErr => ulog[i].out.err = NilErr
    /\ ulog[i].in.err # NilErr =>
         ulog[i].out.err = IF ErrorsIs(ulog[i].in.err, "sql.ErrNoRows")
                           THEN <<"user not found">>
                           ELSE <<"internal server error">>

\* C27 witness: a lookup by id failed with sql.ErrNoRows and a lookup by
\* email failed with another error, the repository returning a User with
\* the error in one of them.
C27_Witness ==
  \E i \in UserCalls("GetUserByID"), j \in UserCalls("GetUserByEmail") :
    /\ ulog[i].in.err = <<"sql.ErrNoRows">>
    /\ ulog[i].out.err = <<"user not found">>
    /\ ulog[i].out.res = ZeroUser
    /\ ulog[j].in.err = <<"AnError">>
    /\ ulog[j].in.user # ZeroUser
    /\ ulog[j].out.err = <<"internal server error">>
    /\ ulog[j].out.res = ulog[j].in.user

\* C32: no lost wake-up.  With every started work function returning,
\* every invocation that has entered ProccesWrapper, as the one running the
\* work function or as a waiter, on a call that is forgotten or not,
\* eventually returns, and eventually all of main's goroutines have
\* returned, which is what main's wg.Wait waits for.
C32_NoLostWakeup ==
  /\ \A p \in Procs : (pc[p] \in {"running", "waiting"}) ~> (pc[p] = "done")
  /\ <>(\A p \in Procs : pc[p] = "done")

\* C32 witness: all goroutines have returned, one of them a waiter of a
\* call that was forgotten while it waited.
C32_Witness ==
  /\ \A p \in Procs : pc[p] = "done"
  /\ \E p \in Procs :
       /\ Joined(p) /\ calls[callOf[p]].forgotten
       /\ gret[p] # NoGetRet

(***************************************************************************)
(* Properties of Subscriber.Listen.                                        *)
(***************************************************************************)
\* Listen stops listening in this step
ListenEnds == spc = "listening" /\ spc' # "listening"

\* Listen receives a message in this step
Receives == spc = "listening" /\ taken' = taken + 1

\* C33: Listen terminates exactly when its context is cancelled or the
\* subscription channel is closed.  It ends only by returning, only with
\* the context cancelled or the channel closed and drained, never in the
\* step that receives a message, and it has closed the subscription then.
C33_ListenEndsOnlyOnCancelOrClose ==
  /\ [](spc \in {"idle", "listening", "returned"})
  /\ [](spc = "returned" => subClosed)
  /\ [][ListenEnds =>
          /\ ctxDone \/ (chClosed /\ chan = <<>>)
          /\ ~Receives]_vars

\* the payloads that are the text of a message with a product
WellFormed == {ToBytes(msg) : msg \in Messages}

\* the message whose text is the payload
MessageOf(payload) == CHOOSE msg \in Messages : ToBytes(msg) = payload

\* what Listen is to print for the messages it received: one line for
\* every well-formed one, in the order of delivery
ExpectedOutput ==
  LET got  == SubSeq(delivered, 1, taken)
      good == SelectSeq(got, LAMBDA x : x \in WellFormed)
  IN [i \in 1..Len(good) |->
        [id |-> MessageOf(good[i]).product[1].id,
         name |-> MessageOf(good[i]).product[1].name,
         action |-> MessageOf(good[i]).action]]

\* C34: Listen skips an empty payload and one that fails to unmarshal and
\* keeps listening: the step that receives such a message leaves Listen
\* listening, prints nothing and drops no other message, and at any time
\* the messages printed are the well-formed ones among those received, in
\* delivery order.
C34_SkipsBadPayloads ==
  /\ [](processed = ExpectedOutput)
  /\ [](spc = "listening" => chan = SubSeq(delivered, taken + 1, Len(delivered)))
  /\ [][(Receives /\ Head(chan) \in {"", "{not json"}) =>
          /\ spc' = "listening"
          /\ processed' = processed
          /\ chan' = Tail(chan)]_vars

\* C34 witness: an empty payload, a malformed one and then a well-formed
\* message were delivered, and Listen, still listening, has printed the
\* well-formed one.
C34_Witness ==
  /\ spc = "listening"
  /\ Len(delivered) = 3 /\ taken = 3
  /\ delivered[1] = "" /\ delivered[2] = "{not json"
  /\ delivered[3] \in WellFormed
  /\ processed = <<[id |-> 2, name |-> "Laptop A", action |-> "update"]>>


(***************************************************************************)
(* Properties of package configs.                                          *)
(***************************************************************************)
ConfReturned(p) == cpc[p] = "ret"

\* C35: For any interleaving of calls of configs.Init and configs.Get the
\* function passed to once.Do runs at most once, and it has run once, with
\* initialized set, by the time any call has returned; every Get that has
\* returned returned the pointer &conf, whether it read initialized as true
\* or went through Init.
C35_InitializedOnce ==
  /\ bodyRuns <= 1
  /\ \A p \in CProcs :
       ConfReturned(p) =>
         /\ bodyRuns = 1
         /\ initialized
         /\ cop[p] = "Get" => cret[p].ptr = "&conf"

\* Three calls have returned after one run of the function: one Get that
\* read initialized as false and went through Init, one Get that read it as
\* true, and the pointers they returned are equal.
C35_Witness ==
  /\ bodyRuns = 1
  /\ \A p \in CProcs : ConfReturned(p)
  /\ \E p, q \in CProcs :
       /\ cop[p] = "Get" /\ cret[p].seen = "false"
       /\ cop[q] = "Get" /\ cret[q].seen = "true"
       /\ cret[p].ptr = cret[q].ptr

\* C36: When godotenv.Load failed and envconfig.Process succeeded, the call
\* of Init that ran the function returns nil and initialized is true; every
\* call of Init that has returned, first or later, returned nil.
C36_MissingEnvFileIsNoFailure ==
  /\ \A p \in CProcs :
       (ConfReturned(p) /\ cop[p] = "Init") => cret[p].err = "nil"
  /\ (bodyRuns = 1 /\ envres.loadErr # "nil" /\ envres.procErr = "nil")
       => initialized

\* godotenv.Load failed, the call of Init that ran the function has
\* returned nil, and a later call of Init has returned nil as well.
C36_Witness ==
  /\ envres.loadErr # "nil"
  /\ envres.procErr = "nil"
  /\ initialized
  /\ once = "done"
  /\ \E p, q \in CProcs :
       /\ p < q
       /\ cop[p] = "Init" /\ ConfReturned(p) /\ cret[p].err = "nil"
       /\ cop[q] = "Init" /\ ConfReturned(q) /\ cret[q].err = "nil"

=============================================================================
